---- MODULE Spec2Model ----
(***************************************************************************)
(* A model of anem_automation.py: the process main() -> automate_anem_form *)
(* with its helpers, driving one browser session through the ANEM login    *)
(* form.  The browser, the portal and the operating system are the         *)
(* environment: every value the code reads from them is drawn with \E.     *)
(*                                                                         *)
(* Strings that the code inspects are modelled as sequences: a credential  *)
(* is a sequence of characters, a URL a sequence of path tokens, a page    *)
(* source the set of the marker texts it contains.                         *)
(***************************************************************************)
EXTENDS Integers, Sequences, FiniteSets, TLC

(***************************************************************************)
(* Bounds of the model.                                                    *)
(***************************************************************************)
\* longest credential string drawn under SpecValidate
MaxLen == 3
\* most clock ticks (half seconds) that pass between two readings of the clock
MaxAdvance == 45
\* longest timeout, in seconds, drawn under SpecWait
MaxTimeout == 3

(***************************************************************************)
(* Characters and Python's str.strip / str.isdigit.                        *)
(***************************************************************************)
Digits == {"3", "7"}
Whitespace == {" "}
Chars == Digits \cup Whitespace \cup {"x"}

Strings(n) == UNION {[1..k -> Chars] : k \in 0..n}

\* the value of an environment variable that is not set
Absent == <<"<absent>">>

\* the values N1 and N2 take in the environment of a run of the script
EnvValues == {Absent, <<>>, <<"x">>, <<"7">>, <<" ", "3">>}

RECURSIVE LStrip(_)
LStrip(s) ==
    IF s # <<>> /\ Head(s) \in Whitespace THEN LStrip(Tail(s)) ELSE s

RECURSIVE RStrip(_)
RStrip(s) ==
    IF s # <<>> /\ s[Len(s)] \in Whitespace
    THEN RStrip(SubSeq(s, 1, Len(s) - 1))
    ELSE s

\* str.strip()
Strip(s) == RStrip(LStrip(s))

\* str.isdigit(): at least one character and every character a digit
IsDigit(s) == s # <<>> /\ \A i \in 1..Len(s) : s[i] \in Digits

\* faulty variant: isdigit() is asked of the string before it is stripped
validate_numbers_nostrip(v) ==
    IF v = <<>> \/ Strip(v) = <<>>
    THEN [ok |-> FALSE, value |-> <<>>, error |-> "Number cannot be empty"]
    ELSE IF ~IsDigit(v)
         THEN [ok |-> FALSE, value |-> <<>>,
               error |-> "Number must contain only digits"]
         ELSE [ok |-> TRUE, value |-> v, error |-> ""]

\* AnemSettings.validate_numbers: the value returned, or the ValueError raised
validate_numbers(v) ==
    IF v = <<>> \/ Strip(v) = <<>>
    THEN [ok |-> FALSE, value |-> <<>>, error |-> "Number cannot be empty"]
    ELSE IF ~IsDigit(Strip(v))
         THEN [ok |-> FALSE, value |-> <<>>,
               error |-> "Number must contain only digits"]
         ELSE [ok |-> TRUE, value |-> Strip(v), error |-> ""]

\* a required field (Field(...)) with no value in the environment
MissingField == [ok |-> FALSE, value |-> <<>>, error |-> "Field required"]

\* AnemSettings(): every field is looked up and validated; construction
\* raises when any field has an error
FieldResult(v) == IF v = Absent THEN MissingField ELSE validate_numbers(v)

AnemSettings(env) ==
    LET r1 == FieldResult(env.N1)
        r2 == FieldResult(env.N2)
    IN  [ok |-> r1.ok /\ r2.ok, n1 |-> r1, n2 |-> r2]

NoSettings == [ok |-> FALSE, n1 |-> MissingField, n2 |-> MissingField]

(***************************************************************************)
(* URLs and page sources.                                                  *)
(***************************************************************************)
Host == "https://minha.anem.dz"
pre_inscription_url == <<Host, "pre_inscription">>
pre_rendez_vous_url == <<Host, "pre_rendez_vous">>

\* the addresses the browser may be at when the code reads current_url
Urls ==
    { pre_inscription_url,
      pre_rendez_vous_url,
      <<Host, "pre_rendez_vous", "liste">>,
      <<Host, "Login">>,
      <<Host, "accueil">> }

\* faulty variant: the URL is compared for equality
StartsWith_Equal(u, p) == u = p

\* str.startswith
StartsWith(u, p) == Len(u) >= Len(p) /\ SubSeq(u, 1, Len(p)) = p

\* str.lower(), token by token
LowerToken(t) == IF t = "Login" THEN "login" ELSE t
Lower(u) == [i \in 1..Len(u) |-> LowerToken(u[i])]

\* `text in url`
InUrl(text, u) == \E i \in 1..Len(u) : u[i] = text

target_message == "no-appointment-message"
Markers == {"numeroWassit", "numeroPieceIdentite", "CHEHROURI", target_message}

\* the page sources the browser may return: which marker texts they contain
Sources == SUBSET Markers

\* `text in page_source`
InSource(text, src) == text \in src

\* a local variable that has not been assigned
UnboundUrl == <<>>
UnboundSource == {"<unbound>"}

(***************************************************************************)
(* Exceptions of the browser operations.                                   *)
(***************************************************************************)
Exceptions == {"TimeoutException", "NoSuchElementException", "Exception"}

\* what a browser operation does: completes, or raises
Outcomes == {"ok"} \cup Exceptions

(***************************************************************************)
(* Program constants.                                                      *)
(***************************************************************************)
\* wait_for_dialog_with_retry(driver, wait, max_retries=3)
max_retries == 3
\* wait_for_text_in_page_source(driver, "CHEHROURI", timeout=45), in seconds
chehrouri_timeout == 45
\* time.sleep(0.5): the clock is counted in half seconds
TicksPerSecond == 2
\* frame = stack[1].frame in the finally block
StackIndex == 1

VARIABLES
    pc,                \* where the process is
    environ,           \* the environment variables N1 and N2
    settings,          \* the AnemSettings object, with each field's validation
    exitCode,          \* <<>> while running, <<code>> once the process has ended
    abort,             \* which sys.exit(1) ended the process, if one did
    driver,            \* the browser session: "none", "open" or "quit"
    form,              \* the contents of the two inputs of the page
    typed,             \* the fields send_keys has typed into, in order
    submitted,         \* the form contents at each click of the submit button
    dialogCalls,       \* what each call of wait_for_dialog_with_retry came to
    login_indicators,  \* the list the latest timeout handler built
    handler_reads,     \* the current_url and page_source that handler read
    dialog_success,    \* local of automate_anem_form
    is_still_on_login, \* local of automate_anem_form
    refill,            \* what refill_form_and_retry returned
    dialogClicks,      \* clicks of the confirmation button
    prv_bound,         \* local pre_rendez_vous_url has been assigned
    current_url,       \* local of automate_anem_form
    target_bound,      \* local target_message has been assigned
    appeared,          \* local of automate_anem_form
    page_source,       \* local of automate_anem_form
    timeout,           \* parameter of wait_for_text_in_page_source, seconds
    poll_source,       \* its local page_source
    polled,            \* wait_for_text_in_page_source has read the page
    elapsed,           \* its local elapsed, in ticks
    sound,             \* what the calls of play_sound came to, in order
    result,            \* the value automate_anem_form returns
    exc,               \* the exception its except clauses caught
    fetch              \* the process that runs fetch.py as a script

vars ==
    << pc, environ, settings, exitCode, abort, driver, form, typed, submitted,
       dialogCalls, login_indicators, handler_reads, dialog_success,
       is_still_on_login, refill, dialogClicks, prv_bound, current_url, target_bound, appeared,
       page_source, timeout, poll_source, polled, elapsed, sound, result, exc,
       fetch >>

\* groups of variables an action leaves alone
procVars == << environ, settings, exitCode, abort, fetch >>
pageVars == << form, typed, submitted >>
dialogVars ==
    << dialogCalls, login_indicators, handler_reads, dialog_success,
       is_still_on_login, refill, dialogClicks >>
inspectVars ==
    << current_url, target_bound, appeared, page_source, timeout, poll_source,
       polled, elapsed, sound >>

\* the handler of wait_for_dialog_with_retry has read nothing
NoReads == [current_url |-> UnboundUrl, page_source |-> UnboundSource]

EmptyForm == [numeroWassit |-> <<>>, numeroPieceIdentite |-> <<>>]

Py(b) == IF b THEN "True" ELSE "False"

InitRest ==
    /\ pc = "get_settings"
    /\ settings = NoSettings
    /\ exitCode = <<>>
    /\ abort = "none"
    /\ driver = "none"
    /\ form = EmptyForm
    /\ typed = <<>>
    /\ submitted = <<>>
    /\ dialogCalls = <<>>
    /\ login_indicators = <<>>
    /\ handler_reads = NoReads
    /\ dialog_success = "unbound"
    /\ is_still_on_login = "unbound"
    /\ refill = "none"
    /\ dialogClicks = 0
    /\ prv_bound = FALSE
    /\ current_url = UnboundUrl
    /\ target_bound = FALSE
    /\ appeared = "unbound"
    /\ page_source = UnboundSource
    /\ timeout = 0
    /\ poll_source = UnboundSource
    /\ polled = FALSE
    /\ elapsed = 0
    /\ sound = <<>>
    /\ result = "none"
    /\ exc = "none"

\* fetch.py has not been started
FetchIdle ==
    [pc |-> "idle", n1 |-> Absent, n2 |-> Absent, request |-> <<>>,
     outcome |-> "none", exitCode |-> <<>>]

\* the process as main() is entered
Init ==
    /\ environ \in [N1 : EnvValues, N2 : EnvValues]
    /\ fetch = FetchIdle
    /\ InitRest

\* the inputs of the validator
InitValidate ==
    /\ environ \in [N1 : Strings(MaxLen), N2 : Strings(MaxLen)]
    /\ fetch = FetchIdle
    /\ InitRest

(***************************************************************************)
(* get_settings and setup_driver: both end the process with sys.exit(1).   *)
(***************************************************************************)
\* faulty variant: an invalid configuration is reported and the run goes on
GetSettings_NoExit ==
    /\ pc = "get_settings"
    /\ settings' = AnemSettings(environ)
    /\ pc' = "setup_driver"
    /\ UNCHANGED << environ, fetch, exitCode, abort, driver, pageVars, dialogVars,
                    prv_bound, inspectVars, result, exc >>

GetSettings ==
    /\ pc = "get_settings"
    /\ LET s == AnemSettings(environ)
       IN  /\ settings' = s
           /\ IF s.ok
              THEN /\ pc' = "setup_driver"
                   /\ UNCHANGED << exitCode, abort >>
              ELSE /\ pc' = "exited"
                   /\ exitCode' = <<1>>
                   /\ abort' = "settings"
    /\ UNCHANGED << environ, fetch, driver, pageVars, dialogVars, prv_bound,
                    inspectVars, result, exc >>

\* sys.exit(1) in setup_driver
SetupDriverExitCode == 1

\* the statements of setup_driver's try block, in order
SetupStages == <<"install", "chrome", "execute_script">>

SetupDriver ==
    /\ pc = "setup_driver"
    /\ \E failed \in 0..Len(SetupStages) :
          IF failed = 0
          THEN /\ driver' = "open"
               /\ pc' = "navigate"
               /\ UNCHANGED << exitCode, abort >>
          ELSE \* the browser is running once webdriver.Chrome has returned
               /\ driver' = IF SetupStages[failed] = "execute_script"
                            THEN "open" ELSE "none"
               /\ pc' = "exited"
               /\ exitCode' = <<SetupDriverExitCode>>
               /\ abort' = "driver"
    /\ UNCHANGED << environ, fetch, settings, pageVars, dialogVars, prv_bound,
                    inspectVars, result, exc >>

(***************************************************************************)
(* The except clauses of automate_anem_form.                               *)
(***************************************************************************)
\* faulty variant: the catch-all clause reports success
Handler_Success(e) ==
    CASE e = "TimeoutException" -> "False"
      [] e = "NoSuchElementException" -> "False"
      [] OTHER -> "True"

\* the value the except clause for e returns
Handler(e) ==
    CASE e = "TimeoutException" -> "False"
      [] e = "NoSuchElementException" -> "False"
      [] OTHER -> "False"

\* an exception e leaves the try block
Raise(e) ==
    /\ exc' = e
    /\ result' = Handler(e)
    /\ pc' = "finally"

(***************************************************************************)
(* The try block up to the first click of the submit button.               *)
(***************************************************************************)
\* driver.get(pre_inscription_url), then current_url and title are printed
Navigate ==
    /\ pc = "navigate"
    /\ prv_bound' = TRUE
    /\ \E o \in Outcomes :
          IF o = "ok"
          THEN /\ pc' = "fill_n1"
               /\ UNCHANGED << result, exc >>
          ELSE Raise(o)
    /\ UNCHANGED << procVars, driver, pageVars, dialogVars, inspectVars >>

\* an input is found, cleared and typed into
FillField(name, value, next) ==
    /\ \E o \in Outcomes :
          IF o = "ok"
          THEN /\ form' = [form EXCEPT ![name] = <<>> \o value]
               /\ typed' = Append(typed, name)
               /\ pc' = next
               /\ UNCHANGED << result, exc >>
          ELSE /\ Raise(o)
               /\ UNCHANGED << form, typed >>
    /\ UNCHANGED << procVars, driver, submitted, dialogVars, prv_bound,
                    inspectVars >>

FillN1 ==
    /\ pc = "fill_n1"
    /\ FillField("numeroWassit", settings.n1.value, "fill_n2")

FillN2 ==
    /\ pc = "fill_n2"
    /\ FillField("numeroPieceIdentite", settings.n2.value, "submit")

\* button#mui-6 is waited for and clicked: the page sends what its inputs hold
ClickSubmit ==
    /\ pc = "submit"
    /\ \E o \in Outcomes :
          IF o = "ok"
          THEN /\ submitted' = Append(submitted, form)
               /\ pc' = "dialog_wait"
               /\ UNCHANGED << result, exc >>
          ELSE /\ Raise(o)
               /\ UNCHANGED submitted
    /\ UNCHANGED << procVars, driver, form, typed, dialogVars, prv_bound,
                    inspectVars >>

(***************************************************************************)
(* wait_for_dialog_with_retry.                                             *)
(***************************************************************************)
\* faulty variant: 'login' is looked for in the URL as it is written
LoginIndicators_NoLower(url, src) ==
    << InSource("numeroWassit", src),
       InSource("numeroPieceIdentite", src),
       InUrl("pre_inscription", url),
       InUrl("login", url) >>

\* login_indicators, from the URL and page source the handler reads
LoginIndicators(url, src) ==
    << InSource("numeroWassit", src),
       InSource("numeroPieceIdentite", src),
       InUrl("pre_inscription", url),
       InUrl("login", Lower(url)) >>

\* any(login_indicators)
AnyOf(list) == \E i \in 1..Len(list) : list[i]

\* What one call comes to.  spinner, button and read are what the two spinner
\* waits, the wait for button.muirtl-1om64lz and the handler's reads of
\* current_url and page_source do on the first pass through the loop; url and
\* src are what the handler reads.  Every path through the loop body leaves
\* the function (return True, False / return False, ... / an exception), so
\* no pass follows the first.
wait_for_dialog_with_retry(spinner, button, read, url, src) ==
    LET Returns(s, l, n, ind) ==
            [raised |-> "none", success |-> s, login |-> l, attempts |-> n,
             indicators |-> ind]
        Raises(e, n) ==
            [raised |-> e, success |-> FALSE, login |-> FALSE, attempts |-> n,
             indicators |-> <<>>]
    IN  IF max_retries = 0
        THEN Returns(FALSE, FALSE, 0, <<>>)
        ELSE IF spinner \notin {"ok", "TimeoutException"}
        THEN Raises(spinner, 1)
        ELSE IF button = "ok"
        THEN Returns(TRUE, FALSE, 1, <<>>)
        ELSE IF button # "TimeoutException"
        THEN Raises(button, 1)
        ELSE IF read # "ok"
        THEN Raises(read, 1)
        ELSE IF AnyOf(LoginIndicators(url, src))
        THEN Returns(FALSE, TRUE, 1, LoginIndicators(url, src))
        ELSE Returns(FALSE, FALSE, 1, LoginIndicators(url, src))

\* what dialogCalls keeps of a call
CallRecord(r) ==
    [raised |-> r.raised, success |-> r.success, login |-> r.login,
     attempts |-> r.attempts]

\* The environments of one call.  The URL and the page source are drawn only
\* where the handler gets to read them.
DialogEnvironments ==
    {e \in [spinner : Outcomes, button : Outcomes, read : Outcomes,
            url : Urls, src : Sources] :
        \/ /\ e.spinner \in {"ok", "TimeoutException"}
           /\ e.button = "TimeoutException"
           /\ e.read = "ok"
        \/ /\ e.url = pre_inscription_url
           /\ e.src = {}}

\* current_url and page_source as the handler of a call in environment e
\* leaves them: read when the wait for the button timed out, unbound otherwise
HandlerReads(r, e) ==
    IF r.indicators # <<>>
    THEN [current_url |-> e.url, page_source |-> e.src]
    ELSE NoReads

\* the page may have rendered the login form afresh, with empty inputs, while
\* the dialog was waited for in vain
FormAfterWait(r, reset) ==
    IF r.raised = "none" /\ ~r.success /\ reset THEN EmptyForm ELSE form

\* dialog_success, is_still_on_login = wait_for_dialog_with_retry(driver, wait)
DialogWait ==
    /\ pc = "dialog_wait"
    /\ \E e \in DialogEnvironments, reset \in BOOLEAN :
          LET r == wait_for_dialog_with_retry(e.spinner, e.button, e.read,
                                              e.url, e.src)
          IN  /\ dialogCalls' = Append(dialogCalls, CallRecord(r))
              /\ form' = FormAfterWait(r, reset)
              /\ IF r.raised = "none"
                 THEN /\ dialog_success' = Py(r.success)
                      /\ is_still_on_login' = Py(r.login)
                      /\ login_indicators' = r.indicators
                      /\ handler_reads' = HandlerReads(r, e)
                      /\ pc' = "dialog_branch"
                      /\ UNCHANGED << result, exc >>
                 ELSE /\ Raise(r.raised)
                      /\ UNCHANGED << dialog_success, is_still_on_login,
                                      login_indicators, handler_reads >>
    /\ UNCHANGED << procVars, driver, typed, submitted, refill, dialogClicks,
                    prv_bound, inspectVars >>

\* the confirmation button is waited for and clicked
ClickDialogButton ==
    /\ \E o \in Outcomes :
          IF o = "ok"
          THEN /\ dialogClicks' = dialogClicks + 1
               /\ pc' = "settle"
               /\ UNCHANGED << result, exc >>
          ELSE /\ Raise(o)
               /\ UNCHANGED dialogClicks
    /\ login_indicators' = <<>>
    /\ handler_reads' = NoReads
    /\ UNCHANGED << procVars, driver, pageVars, dialogCalls, dialog_success,
                    is_still_on_login, refill, prv_bound, inspectVars >>

\* if dialog_success:
\* faulty variant: the button is clicked whatever the dialog wait returned
ConfirmDialog_Unguarded ==
    /\ pc = "dialog_branch"
    /\ ClickDialogButton

ConfirmDialog ==
    /\ pc = "dialog_branch"
    /\ dialog_success = "True"
    /\ ClickDialogButton

\* refill_form_and_retry: the submit button is waited for and clicked again;
\* whatever is raised is caught and False returned
refill_form_and_retry(o) ==
    IF o = "ok"
    THEN /\ submitted' = Append(submitted, form)
         /\ refill' = "ok"
    ELSE /\ refill' = "failed"
         /\ UNCHANGED submitted

\* faulty variant: a plain else, taken whenever the dialog wait failed
RefillAndRetry_Else ==
    /\ pc = "dialog_branch"
    /\ dialog_success # "True"
    /\ \E o \in Outcomes :
          /\ refill_form_and_retry(o)
          /\ pc' = IF o = "ok" THEN "retry_dialog_wait" ELSE "settle"
    /\ login_indicators' = <<>>
    /\ handler_reads' = NoReads
    /\ UNCHANGED << procVars, driver, form, typed, dialogCalls, dialog_success,
                    is_still_on_login, dialogClicks, prv_bound, inspectVars,
                    result, exc >>

\* elif is_still_on_login:
RefillAndRetry ==
    /\ pc = "dialog_branch"
    /\ dialog_success # "True"
    /\ is_still_on_login = "True"
    /\ \E o \in Outcomes :
          /\ refill_form_and_retry(o)
          /\ pc' = IF o = "ok" THEN "retry_dialog_wait" ELSE "settle"
    /\ login_indicators' = <<>>
    /\ handler_reads' = NoReads
    /\ UNCHANGED << procVars, driver, form, typed, dialogCalls, dialog_success,
                    is_still_on_login, dialogClicks, prv_bound, inspectVars,
                    result, exc >>

\* else: "Continuing anyway..."
ContinueAnyway ==
    /\ pc = "dialog_branch"
    /\ dialog_success # "True"
    /\ is_still_on_login # "True"
    /\ pc' = "settle"
    /\ login_indicators' = <<>>
    /\ handler_reads' = NoReads
    /\ UNCHANGED << procVars, driver, pageVars, dialogCalls, dialog_success,
                    is_still_on_login, refill, dialogClicks, prv_bound,
                    inspectVars, result, exc >>

\* dialog_success, _ = wait_for_dialog_with_retry(driver, wait)
RetryDialogWait ==
    /\ pc = "retry_dialog_wait"
    /\ \E e \in DialogEnvironments :
          LET r == wait_for_dialog_with_retry(e.spinner, e.button, e.read,
                                              e.url, e.src)
          IN  /\ dialogCalls' = Append(dialogCalls, CallRecord(r))
              /\ IF r.raised = "none"
                 THEN /\ dialog_success' = Py(r.success)
                      /\ login_indicators' = r.indicators
                      /\ handler_reads' = HandlerReads(r, e)
                      /\ pc' = "retry_branch"
                      /\ UNCHANGED << result, exc >>
                 ELSE /\ Raise(r.raised)
                      /\ UNCHANGED << dialog_success, login_indicators,
                                      handler_reads >>
    /\ UNCHANGED << procVars, driver, pageVars, is_still_on_login, refill,
                    dialogClicks, prv_bound, inspectVars >>

\* if dialog_success: (after the retry)
RetryConfirmDialog ==
    /\ pc = "retry_branch"
    /\ dialog_success = "True"
    /\ ClickDialogButton

\* else: "Dialog still not appearing after retry"
\* faulty variant: a second failed dialog wait ends the run
RetryGiveUp_ReturnsEarly ==
    /\ pc = "retry_branch"
    /\ dialog_success # "True"
    /\ pc' = "finally"
    /\ result' = "False"
    /\ login_indicators' = <<>>
    /\ handler_reads' = NoReads
    /\ UNCHANGED << procVars, driver, pageVars, dialogCalls, dialog_success,
                    is_still_on_login, refill, dialogClicks, prv_bound,
                    inspectVars, exc >>

RetryGiveUp ==
    /\ pc = "retry_branch"
    /\ dialog_success # "True"
    /\ pc' = "settle"
    /\ login_indicators' = <<>>
    /\ handler_reads' = NoReads
    /\ UNCHANGED << procVars, driver, pageVars, dialogCalls, dialog_success,
                    is_still_on_login, refill, dialogClicks, prv_bound,
                    inspectVars, result, exc >>

(***************************************************************************)
(* The inspection of the URL and the page.                                 *)
(***************************************************************************)
\* time.sleep(5); current_url = driver.current_url; the title is printed;
\* target_message = ...; if current_url.startswith(pre_rendez_vous_url): ...
Settle ==
    /\ pc = "settle"
    /\ \E readUrl \in Outcomes, readTitle \in Outcomes, url \in Urls :
          IF readUrl # "ok"
          THEN /\ Raise(readUrl)
               /\ UNCHANGED << current_url, target_bound, timeout >>
          ELSE /\ current_url' = url
               /\ IF readTitle # "ok"
                  THEN /\ Raise(readTitle)
                       /\ UNCHANGED << target_bound, timeout >>
                  ELSE /\ target_bound' = TRUE
                       /\ exc' = exc
                       /\ IF StartsWith(url, pre_rendez_vous_url)
                          THEN /\ pc' = "wait_text"
                               /\ timeout' = chehrouri_timeout
                               /\ result' = result
                          ELSE /\ pc' = "finally"
                               /\ result' = "False"
                               /\ UNCHANGED timeout
    /\ UNCHANGED << procVars, driver, pageVars, dialogVars, prv_bound, appeared,
                    page_source, poll_source, polled, elapsed, sound >>

\* the timeout of the call, in ticks
TimeoutTicks == timeout * TicksPerSecond

\* the page sources as far as the loop tells them apart: it looks for the one
\* text only
PolledSources == {src \in Sources : src \subseteq {"CHEHROURI"}}

\* the frame of wait_for_text_in_page_source is gone
WaitFrameGone ==
    /\ timeout' = 0
    /\ poll_source' = UnboundSource
    /\ polled' = FALSE
    /\ elapsed' = 0

\* faulty variant: the clock is looked at before the text is looked for
PollText_ClockFirst ==
    /\ pc = "wait_text"
    /\ \E read \in Outcomes :
          IF read # "ok"
          THEN /\ Raise(read)
               /\ WaitFrameGone
               /\ UNCHANGED appeared
          ELSE \E src \in PolledSources,
                  adv \in (IF polled THEN 1 ELSE 0)..MaxAdvance :
                  /\ poll_source' = src
                  /\ polled' = TRUE
                  /\ elapsed' = elapsed + adv
                  /\ IF elapsed + adv > TimeoutTicks
                     THEN /\ appeared' = "False"
                          /\ pc' = "check_message"
                     ELSE IF InSource("CHEHROURI", src)
                     THEN /\ appeared' = "True"
                          /\ pc' = "check_message"
                     ELSE UNCHANGED << pc, appeared >>
                  /\ UNCHANGED << timeout, result, exc >>
    /\ UNCHANGED << procVars, driver, pageVars, dialogVars, prv_bound,
                    current_url, target_bound, page_source, sound >>

\* One pass of the loop of wait_for_text_in_page_source(driver, "CHEHROURI",
\* timeout): the page source is read, the text looked for, the clock read,
\* and the loop sleeps half a second unless it returns.  At least the sleep
\* passes between two readings of the clock.  The locals stay as the return
\* leaves them until the caller goes on.
PollText ==
    /\ pc = "wait_text"
    /\ \E read \in Outcomes :
          IF read # "ok"
          THEN /\ Raise(read)
               /\ WaitFrameGone
               /\ UNCHANGED appeared
          ELSE \E src \in PolledSources :
                  /\ poll_source' = src
                  /\ polled' = TRUE
                  /\ UNCHANGED << timeout, result, exc >>
                  /\ IF InSource("CHEHROURI", src)
                     THEN /\ appeared' = "True"
                          /\ pc' = "check_message"
                          /\ UNCHANGED elapsed
                     ELSE \E adv \in (IF polled THEN 1 ELSE 0)..MaxAdvance :
                             /\ elapsed' = elapsed + adv
                             /\ IF elapsed + adv > TimeoutTicks
                                THEN /\ appeared' = "False"
                                     /\ pc' = "check_message"
                                ELSE UNCHANGED << pc, appeared >>
    /\ UNCHANGED << procVars, driver, pageVars, dialogVars, prv_bound,
                    current_url, target_bound, page_source, sound >>

\* what a call of play_sound comes to: the file is played to its end, the file
\* is not there, or pygame raises (caught inside play_sound)
SoundOutcomes == {"played", "missing", "error"}

\* play_sound("sound.mp3")
play_sound(o) == sound' = Append(sound, o)

\* page_source = driver.page_source; if target_message in page_source:
\* return True; else: play_sound("sound.mp3"); return False
CheckMessage ==
    /\ pc = "check_message"
    /\ \E read \in Outcomes, src \in Sources, snd \in SoundOutcomes :
          IF read # "ok"
          THEN /\ Raise(read)
               /\ UNCHANGED << page_source, sound >>
          ELSE /\ page_source' = src
               /\ pc' = "finally"
               /\ exc' = exc
               /\ IF InSource(target_message, src)
                  THEN /\ result' = "True"
                       /\ UNCHANGED sound
                  ELSE /\ play_sound(snd)
                       /\ result' = "False"
    /\ WaitFrameGone
    /\ UNCHANGED << procVars, driver, pageVars, dialogVars, prv_bound,
                    current_url, target_bound, appeared >>

(***************************************************************************)
(* The finally block and main.                                             *)
(***************************************************************************)
\* the f_locals of the frames of inspect.stack(): entry 0 is the frame of
\* automate_anem_form itself, entry 1 the frame of main, which has bound no
\* local yet (f_locals.get(name, None) finds nothing there)
FrameLocals(i) ==
    IF i = 0
    THEN [pre_rendez_vous_url |->
              IF prv_bound THEN pre_rendez_vous_url ELSE UnboundUrl,
          current_url |-> current_url,
          page_source |-> page_source,
          target_message |-> IF target_bound THEN target_message ELSE ""]
    ELSE [pre_rendez_vous_url |-> UnboundUrl,
          current_url |-> UnboundUrl,
          page_source |-> UnboundSource,
          target_message |-> ""]

\* called_from_appointments_available, from the locals of frame stack[1]
CalledFromAppointmentsAvailable ==
    LET f == FrameLocals(StackIndex)
    IN  /\ f.pre_rendez_vous_url # UnboundUrl
        /\ f.current_url # UnboundUrl
        /\ StartsWith(f.current_url, f.pre_rendez_vous_url)
        /\ f.page_source # UnboundSource
        /\ f.target_message # ""
        /\ ~InSource(f.target_message, f.page_source)

\* if not called_from_appointments_available: driver.quit()
Finally ==
    /\ pc = "finally"
    /\ driver' = IF CalledFromAppointmentsAvailable THEN driver ELSE "quit"
    /\ pc' = "main"
    /\ UNCHANGED << procVars, pageVars, dialogVars, prv_bound, inspectVars,
                    result, exc >>

\* faulty variant: main ends the process with sys.exit(0 if success else 1)
MainReturns_ExitOnFailure ==
    /\ pc = "main"
    /\ exitCode' = IF result = "True" THEN <<0>> ELSE <<1>>
    /\ pc' = "exited"
    /\ UNCHANGED << environ, fetch, settings, abort, driver, pageVars, dialogVars,
                    prv_bound, inspectVars, result, exc >>

\* main: success = automate_anem_form(); the report is printed and the
\* interpreter ends with code 0
MainReturns ==
    /\ pc = "main"
    /\ exitCode' = <<0>>
    /\ pc' = "exited"
    /\ UNCHANGED << environ, fetch, settings, abort, driver, pageVars, dialogVars,
                    prv_bound, inspectVars, result, exc >>

Next ==
    \/ GetSettings
    \/ SetupDriver
    \/ Navigate
    \/ FillN1
    \/ FillN2
    \/ ClickSubmit
    \/ DialogWait
    \/ ConfirmDialog
    \/ RefillAndRetry
    \/ ContinueAnyway
    \/ RetryDialogWait
    \/ RetryConfirmDialog
    \/ RetryGiveUp
    \/ Settle
    \/ PollText
    \/ CheckMessage
    \/ Finally
    \/ MainReturns

Spec == Init /\ [][Next]_vars

\* the process is not suspended for ever: every blocking call of the run
\* (WebDriverWait, time.sleep, driver.get) returns or raises
SpecLive == Init /\ [][Next]_vars /\ WF_vars(Next)

\* the validators applied to every credential string up to MaxLen
NextValidate == GetSettings

\* wait_for_text_in_page_source(driver, "CHEHROURI", timeout) entered on an
\* open browser, for every timeout
InitWait ==
    /\ environ = [N1 |-> <<"7">>, N2 |-> <<"3">>]
    /\ fetch = FetchIdle
    /\ pc = "wait_text"
    /\ settings = AnemSettings(environ)
    /\ exitCode = <<>>
    /\ abort = "none"
    /\ driver = "open"
    /\ form = EmptyForm
    /\ typed = <<>>
    /\ submitted = <<>>
    /\ dialogCalls = <<>>
    /\ login_indicators = <<>>
    /\ handler_reads = NoReads
    /\ dialog_success = "unbound"
    /\ is_still_on_login = "unbound"
    /\ refill = "none"
    /\ dialogClicks = 0
    /\ prv_bound = FALSE
    /\ current_url = UnboundUrl
    /\ target_bound = FALSE
    /\ appeared = "unbound"
    /\ page_source = UnboundSource
    /\ timeout \in 0..MaxTimeout
    /\ poll_source = UnboundSource
    /\ polled = FALSE
    /\ elapsed = 0
    /\ sound = <<>>
    /\ result = "none"
    /\ exc = "none"

NextWait == PollText

\* the loop is not suspended for ever: every sleep(0.5) returns
SpecWait == InitWait /\ [][NextWait]_vars /\ WF_vars(PollText)

SpecValidate == InitValidate /\ [][NextValidate]_vars

(***************************************************************************)
(* fetch.py run as a script.                                               *)
(***************************************************************************)
\* the automation's variables, which fetch.py does not touch
automationVars ==
    << pc, settings, exitCode, abort, driver, pageVars, dialogVars, prv_bound,
       inspectVars, result, exc >>

\* the query string written in the URL of fetch_candidate_validation
url_wassitNumber ==
    <<"3", "2", "0", "6", "0", "0", "0", "0", "0", "1", "2", "0">>
url_identityDocNumber ==
    <<"1", "0", "0", "0", "0", "1", "1", "4", "4", "0", "0", "0", "1", "2",
      "0", "0", "0", "9">>

\* requests.get(url, headers=headers, verify=False): the request that
\* fetch_candidate_validation(n1, n2) sends
fetch_candidate_validation(n1, n2) ==
    [endpoint |-> "validateCandidate/query",
     wassitNumber |-> url_wassitNumber,
     identityDocNumber |-> url_identityDocNumber]

\* what the request comes to: a JSON response, an SSL error, or any other
\* exception (raise_for_status, a connection error, a body that is not JSON)
FetchOutcomes == {"response", "SSLError", "Exception"}

\* fetch.py started as a script, in any environment
InitFetch ==
    /\ environ \in [N1 : Strings(MaxLen) \cup {Absent},
                    N2 : Strings(MaxLen) \cup {Absent}]
    /\ fetch = [FetchIdle EXCEPT !.pc = "settings"]
    /\ InitRest

\* settings = AnemSettings(): this class has no validator; a missing field
\* raises outside the try block and ends the process with a traceback
FetchLoadSettings ==
    /\ fetch.pc = "settings"
    /\ fetch' =
          IF environ.N1 = Absent \/ environ.N2 = Absent
          THEN [fetch EXCEPT !.pc = "exited", !.exitCode = <<1>>]
          ELSE [fetch EXCEPT !.pc = "call", !.n1 = environ.N1,
                             !.n2 = environ.N2]
    /\ UNCHANGED << environ, automationVars >>

\* result = fetch_candidate_validation(settings.n1, settings.n2)
FetchCall ==
    /\ fetch.pc = "call"
    /\ \E o \in FetchOutcomes :
          fetch' = [fetch EXCEPT
                       !.pc = "report",
                       !.request =
                           <<fetch_candidate_validation(fetch.n1, fetch.n2)>>,
                       !.outcome = o]
    /\ UNCHANGED << environ, automationVars >>

\* the response or the error is printed and the script ends
FetchReport ==
    /\ fetch.pc = "report"
    /\ fetch' = [fetch EXCEPT !.pc = "exited", !.exitCode = <<0>>]
    /\ UNCHANGED << environ, automationVars >>

NextFetch ==
    \/ FetchLoadSettings
    \/ FetchCall
    \/ FetchReport

SpecFetch == InitFetch /\ [][NextFetch]_vars

(***************************************************************************)
(* The claims.                                                             *)
(***************************************************************************)
\* automate_anem_form has returned (its finally block may still be running)
Returned == pc \in {"finally", "main", "exited"} /\ abort = "none"

\* the URL read at the inspection begins with the pre_rendez_vous URL
Redirected ==
    \E k \in 0..Len(current_url) :
        SubSeq(current_url, 1, k) = <<Host, "pre_rendez_vous">>

\* the page source read for the message holds the 'no appointment' phrase
PhrasePresent == "no-appointment-message" \in page_source

\* v is digits with, at most, whitespace before and after them
PaddedDigits(v) ==
    \E i \in 1..Len(v), j \in 1..Len(v) :
        /\ i <= j
        /\ \A k \in 1..Len(v) :
              IF k < i \/ k > j THEN v[k] = " " ELSE v[k] \in {"3", "7"}

\* the digits of such a v
Core(v) ==
    LET keep == {k \in 1..Len(v) : v[k] # " "}
    IN  IF keep = {} THEN <<>>
        ELSE SubSeq(v, CHOOSE k \in keep : \A m \in keep : k <= m,
                       CHOOSE k \in keep : \A m \in keep : k >= m)

\* C1: a run that gets through the inspection of the URL and the page without
\* an exception returns True without an alert when it was redirected and the
\* phrase is in the page, calls play_sound once and returns False when it was
\* redirected and the phrase is not there, and returns False without an alert
\* when it was not redirected; play_sound is called in no other case.
C1_ThreeOutcomes ==
    /\ (Returned /\ exc = "none") =>
          /\ (Redirected /\ PhrasePresent) => (result = "True" /\ sound = <<>>)
          /\ (Redirected /\ ~PhrasePresent) =>
                (result = "False" /\ Len(sound) = 1)
          /\ ~Redirected => (result = "False" /\ sound = <<>>)
    /\ sound # <<>> =>
          /\ Len(sound) = 1
          /\ exc = "none"
          /\ Redirected
          /\ page_source # UnboundSource
          /\ ~PhrasePresent

C1_Witness ==
    /\ pc = "exited"
    /\ exc = "none"
    /\ current_url = <<Host, "pre_rendez_vous", "liste">>
    /\ ~PhrasePresent
    /\ sound = <<"played">>
    /\ result = "False"

\* the 'possible slot' outcome of a run
PossibleSlot ==
    /\ exc = "none"
    /\ Redirected
    /\ page_source # UnboundSource
    /\ ~PhrasePresent

\* C2: when automate_anem_form has ended, driver.quit has been called on every
\* path but the 'possible slot' one, where the browser is left open.
C2_BrowserLeftOpen ==
    (pc \in {"main", "exited"} /\ abort = "none") =>
        IF PossibleSlot THEN driver = "open" ELSE driver = "quit"

\* what each field's validation came to, once AnemSettings() has run
Validated(f) == IF f = "N1" THEN settings.n1 ELSE settings.n2

\* C3 (as amended): validate_numbers accepts a string exactly when it is one
\* or more digits with at most whitespace around them, and returns the digits;
\* it raises for every other string (empty, whitespace only, or a non-digit
\* left after the surrounding whitespace is stripped).
C3_ValidateStripped ==
    pc # "get_settings" =>
        \A f \in {"N1", "N2"} :
            environ[f] # Absent =>
                /\ Validated(f).ok <=> PaddedDigits(environ[f])
                /\ Validated(f).ok => Validated(f).value = Core(environ[f])

C3_Witness ==
    /\ pc # "get_settings"
    /\ environ.N1 = <<" ", "7", " ">>
    /\ settings.n1.ok
    /\ settings.n1.value = <<"7">>

\* C3 (as claimed): validate_numbers raises when the string is empty,
\* whitespace only or holds any character that is not a digit, and accepts it
\* when it holds digits only.
C3_AsClaimed ==
    pc # "get_settings" =>
        \A f \in {"N1", "N2"} :
            environ[f] # Absent =>
                (Validated(f).ok <=>
                    /\ environ[f] # <<>>
                    /\ \A k \in 1..Len(environ[f]) : environ[f][k] \in {"3", "7"})

\* C4: a call of wait_for_dialog_with_retry that reports failure has waited
\* for the dialog button max_retries times.
C4_RetriesBeforeFailure ==
    \A i \in 1..Len(dialogCalls) :
        (dialogCalls[i].raised = "none" /\ ~dialogCalls[i].success) =>
            dialogCalls[i].attempts = 3

\* the first dialog wait failed with the page taken for the login page
FirstWaitOnLogin ==
    /\ Len(dialogCalls) >= 1
    /\ dialogCalls[1].raised = "none"
    /\ ~dialogCalls[1].success
    /\ dialogCalls[1].login

\* the branch on the result of the first dialog wait has been taken
BranchTaken ==
    /\ Len(dialogCalls) >= 1
    /\ dialogCalls[1].raised = "none"
    /\ pc \notin {"dialog_wait", "dialog_branch"}

\* C5: the submit button is clicked at most twice; the second click is
\* attempted exactly when the first dialog wait failed on the login page, and
\* the dialog is waited for a second time exactly when that click succeeded.
C5_ResubmitOnce ==
    /\ Len(submitted) <= 2
    /\ Len(dialogCalls) <= 2
    /\ refill # "none" => FirstWaitOnLogin
    /\ (BranchTaken /\ FirstWaitOnLogin) => refill # "none"
    /\ refill = "ok" <=> Len(submitted) = 2
    /\ (refill = "ok" /\ pc # "retry_dialog_wait") <=> Len(dialogCalls) = 2

C5_Witness ==
    /\ pc = "exited"
    /\ refill = "ok"
    /\ Len(submitted) = 2
    /\ Len(dialogCalls) = 2
    /\ dialogCalls[2].success

\* N1 or N2 is missing or fails the validation
InvalidConfiguration ==
    \E f \in {"N1", "N2"} : environ[f] = Absent \/ ~PaddedDigits(environ[f])

\* C6: with N1 or N2 missing or invalid the process ends in get_settings:
\* no browser is set up, no page visited, no field typed into, no alert
\* played.
C6_AbortBeforeBrowser ==
    (InvalidConfiguration /\ pc # "get_settings") =>
        /\ pc = "exited"
        /\ exitCode # <<>>
        /\ abort = "settings"
        /\ driver = "none"
        /\ ~prv_bound
        /\ typed = <<>>
        /\ submitted = <<>>
        /\ sound = <<>>

C6_Witness ==
    /\ pc = "exited"
    /\ abort = "settings"
    /\ environ.N1 = <<"7">>
    /\ environ.N2 = <<"x">>

\* a wait for the dialog button timed out inside wait_for_dialog_with_retry,
\* or refill_form_and_retry caught an exception
RaisedInHelper ==
    \/ refill = "failed"
    \/ \E i \in 1..Len(dialogCalls) :
          dialogCalls[i].raised = "none" /\ ~dialogCalls[i].success

\* C7 (as amended): an exception that leaves the try block of
\* automate_anem_form is caught by its except clauses: the function returns
\* False, play_sound is not called, the finally block runs and the process
\* ends as after any other return.
C7_CaughtInTryBlock ==
    exc # "none" =>
        /\ pc \in {"finally", "main", "exited"}
        /\ abort = "none"
        /\ result = "False"
        /\ sound = <<>>
        /\ pc = "exited" => exitCode = <<0>>

C7_Witness ==
    /\ pc = "exited"
    /\ exc = "Exception"
    /\ result = "False"
    /\ Len(submitted) = 2

\* C7 (as claimed): whenever a browser operation has raised, in the function
\* or in a helper it calls, the function returns False without an alert.
C7_AsClaimed ==
    (Returned /\ (exc # "none" \/ RaisedInHelper)) =>
        (result = "False" /\ sound = <<>>)

\* C8 (as amended): the process ends with code 1 exactly when get_settings or
\* setup_driver ends it with sys.exit(1), and with code 0 whenever
\* automate_anem_form returns, whatever it returns.
C8_ExitCodes ==
    pc = "exited" =>
        /\ abort \in {"settings", "driver"} => exitCode = <<1>>
        /\ abort = "none" => (exitCode = <<0>> /\ result \in {"True", "False"})

C8_Witness ==
    /\ pc = "exited"
    /\ abort = "driver"
    /\ driver = "none"
    /\ exitCode = <<1>>

\* C8 (as claimed): every condition the program handles itself ends with exit
\* code 0 (no exception escapes unhandled in any run of the model).
C8_AsClaimed == pc = "exited" => exitCode = <<0>>

\* C9: the page is searched for the 'no appointment' phrase only once
\* 'CHEHROURI' has been seen in the page source.
C9_CheckedAfterChehrouri == page_source # UnboundSource => appeared = "True"

\* C10: a resubmission by refill_form_and_retry types N1 and N2 into the two
\* fields again and sends the configured credentials.
C10_RefillSendsCredentials ==
    refill = "ok" =>
        /\ typed = <<"numeroWassit", "numeroPieceIdentite",
                     "numeroWassit", "numeroPieceIdentite">>
        /\ submitted[2] = [numeroWassit |-> settings.n1.value,
                           numeroPieceIdentite |-> settings.n2.value]

\* the call of wait_for_dialog_with_retry that has just returned
LastCall == dialogCalls[Len(dialogCalls)]

\* one of the four login-page markers holds of what the handler read
MarkerHolds ==
    \/ "numeroWassit" \in handler_reads.page_source
    \/ "numeroPieceIdentite" \in handler_reads.page_source
    \/ \E i \in 1..Len(handler_reads.current_url) :
          handler_reads.current_url[i] = "pre_inscription"
    \/ \E i \in 1..Len(handler_reads.current_url) :
          handler_reads.current_url[i] \in {"login", "Login", "LOGIN"}

\* C11: a call of wait_for_dialog_with_retry returns (True, False) without
\* reading the page when the button became clickable; when the wait timed out
\* it returns (False, True) if one of the four markers holds of the URL and
\* page source it read and (False, False) if none does; never (True, True).
C11_LoginMarkers ==
    pc \in {"dialog_branch", "retry_branch"} =>
        /\ LastCall.raised = "none"
        /\ LastCall.attempts = 1
        /\ ~(LastCall.success /\ LastCall.login)
        /\ dialog_success = Py(LastCall.success)
        /\ pc = "dialog_branch" => is_still_on_login = Py(LastCall.login)
        /\ LastCall.success <=> handler_reads = NoReads
        /\ ~LastCall.success => (LastCall.login <=> MarkerHolds)

C11_Witness ==
    /\ pc = "dialog_branch"
    /\ handler_reads.current_url = <<Host, "Login">>
    /\ handler_reads.page_source = {"CHEHROURI"}
    /\ dialog_success = "False"
    /\ is_still_on_login = "True"

\* C12: the request fetch_candidate_validation(n1, n2) sends carries n1 as
\* wassitNumber and n2 as identityDocNumber.
C12_RequestCarriesArguments ==
    fetch.request # <<>> =>
        /\ fetch.request[1].wassitNumber = fetch.n1
        /\ fetch.request[1].identityDocNumber = fetch.n2

\* the last poll of wait_for_text_in_page_source found the text
TextAtLastPoll == InSource("CHEHROURI", poll_source)

\* the clock reading of the last poll was past the timeout
PastTimeout == elapsed > timeout * TicksPerSecond

\* while the function loops, no poll so far has ended it; when it has
\* returned, it has polled, and its value is the one the last poll calls for
C13_PollDecides ==
    /\ pc = "wait_text" /\ polled => ~TextAtLastPoll /\ ~PastTimeout
    /\ pc = "check_message" =>
          /\ polled
          /\ appeared \in {"True", "False"}
          /\ appeared = "True" <=> TextAtLastPoll
          /\ appeared = "False" => PastTimeout

\* C13: wait_for_text_in_page_source always terminates; it reads the page
\* source at least once, also with timeout 0; it returns True at the first
\* poll that finds the text, False at the first poll that finds the text
\* absent and the timeout exceeded, and never False at a poll that found
\* the text.
C13_WaitForText ==
    /\ []C13_PollDecides
    /\ (pc = "wait_text") ~> (pc # "wait_text")

C13_Witness ==
    /\ pc = "check_message"
    /\ timeout = 0
    /\ polled
    /\ appeared = "False"
    /\ elapsed = 1

\* C14: the confirmation dialog button is clicked at most once, and only
\* after the latest call of wait_for_dialog_with_retry has returned success
\* and the submit button has been clicked at least once.
C14_ConfirmClickedOnce ==
    /\ dialogClicks <= 1
    /\ dialogClicks = 1 =>
          /\ Len(submitted) >= 1
          /\ Len(submitted) = Len(dialogCalls)
          /\ LastCall.raised = "none"
          /\ LastCall.success
          /\ dialog_success = "True"
          /\ pc \notin {"dialog_wait", "dialog_branch", "retry_dialog_wait",
                        "retry_branch"}

C14_Witness ==
    /\ dialogClicks = 1
    /\ Len(dialogCalls) = 2
    /\ Len(submitted) = 2
    /\ pc = "settle"

\* the dialog step is over and the dialog never appeared: every dialog wait
\* returned failure, and the page was not the login page, or the resubmit
\* click failed, or the second wait failed too
DialogNeverAppeared ==
    /\ Len(dialogCalls) >= 1
    /\ \A i \in 1..Len(dialogCalls) :
          dialogCalls[i].raised = "none" /\ ~dialogCalls[i].success
    /\ \/ ~dialogCalls[1].login
       \/ refill = "failed"
       \/ Len(dialogCalls) = 2

\* automate_anem_form has returned after reading the URL and the title
Inspected == Returned /\ target_bound /\ current_url # UnboundUrl

\* after a failed dialog step the run is at the branch, at the settle delay
\* or at the inspection, the button unclicked; once it has returned, the URL
\* has been read and URL and page text give the outcome
C15_OutcomeByInspection ==
    (DialogNeverAppeared /\ exc = "none") =>
        /\ dialogClicks = 0
        /\ pc \in {"dialog_branch", "retry_branch", "settle", "wait_text",
                    "check_message", "finally", "main", "exited"}
        /\ Returned =>
              /\ Inspected
              /\ Redirected <=> page_source # UnboundSource
              /\ result = Py(Redirected /\ PhrasePresent)
              /\ sound # <<>> <=> (Redirected /\ ~PhrasePresent)

\* C15: a failed dialog step never ends the run early: where the dialog
\* never appeared and no exception is raised, automate_anem_form goes on to
\* the settle delay and the inspection of URL and page, which alone decide
\* the outcome, the possible-slot alert included, the confirmation button
\* unclicked.
C15_FailedDialogGoesOn ==
    /\ []C15_OutcomeByInspection
    /\ (DialogNeverAppeared /\ exc = "none") ~> (exc # "none" \/ Inspected)

C15_Witness ==
    /\ DialogNeverAppeared
    /\ Len(dialogCalls) = 2
    /\ exc = "none"
    /\ pc = "exited"
    /\ dialogClicks = 0
    /\ current_url = pre_rendez_vous_url
    /\ sound # <<>>

====
